---------------------------- MODULE Spec2Model ----------------------------
(***************************************************************************)
(* A model of app.py, the Streamlit healthcare assistant.                  *)
(*                                                                         *)
(* A text is a sequence of pieces.  A user input is a sequence whose       *)
(* pieces are single characters, so that str.lower() and the substring     *)
(* test `keyword in user_input_lower` are computed character by character. *)
(* A fixed text of the program (a canned response, an apology, the         *)
(* disclaimer) is one piece; string concatenation is \o.                   *)
(***************************************************************************)
EXTENDS Naturals, Sequences, FiniteSets

VARIABLES
    pc,             \* position of the script: load_model, load_nltk_data,
                    \* main (about to call main()), idle (page rendered,
                    \* waiting for a widget event), returned (a direct call
                    \* of healthcare_chatbot has returned)
    tokenizer,      \* module-level `tokenizer`: "unset", "None", "loaded"
    model,          \* module-level `model`: "unset", "None", "loaded"
    st_errors,      \* the error boxes the page has shown (st.error, or the
                    \* framework's box for an uncaught exception)
    session_state,  \* st.session_state: a function from keys to values
    user_input,     \* the text handed to healthcare_chatbot / in the text box
    call,           \* what the last invocation of healthcare_chatbot did
    event           \* the widget event the last script run handled

vars == <<pc, tokenizer, model, st_errors, session_state, user_input, call, event>>

-----------------------------------------------------------------------------
(* Bounds of the model.                                                    *)

\* fragments concatenated into an input handed directly to healthcare_chatbot
MaxFrags == 2
\* fragments concatenated into an input typed into the chat page
MaxSendFrags == 1
\* Send submissions whose messages the transcript may hold
MaxTurns == 2

-----------------------------------------------------------------------------
(* Characters and str.lower().                                             *)

UpperChars == <<"A", "B", "C", "D", "E", "F", "G", "H", "I", "J", "K", "L", "M",
                "N", "O", "P", "Q", "R", "S", "T", "U", "V", "W", "X", "Y", "Z">>
LowerChars == <<"a", "b", "c", "d", "e", "f", "g", "h", "i", "j", "k", "l", "m",
                "n", "o", "p", "q", "r", "s", "t", "u", "v", "w", "x", "y", "z">>

LowerChar(c) ==
    IF \E i \in 1..Len(UpperChars) : UpperChars[i] = c
    THEN LowerChars[CHOOSE i \in 1..Len(UpperChars) : UpperChars[i] = c]
    ELSE c

\* user_input.lower()
lower(s) == [i \in 1..Len(s) |-> LowerChar(s[i])]

\* the operands of `in` swapped: user_input_lower in keyword
Contains_reversed(s, k) ==
    \E i \in 0..(Len(k) - Len(s)) : SubSeq(k, i + 1, i + Len(s)) = s

\* Python's `k in s` for strings: k occurs in s as a contiguous substring
Contains(s, k) ==
    \E i \in 0..(Len(s) - Len(k)) : SubSeq(s, i + 1, i + Len(k)) = k

-----------------------------------------------------------------------------
(* The fixed texts of the program.                                         *)

K_symptom     == <<"s", "y", "m", "p", "t", "o", "m">>
K_appointment == <<"a", "p", "p", "o", "i", "n", "t", "m", "e", "n", "t">>
K_medication  == <<"m", "e", "d", "i", "c", "a", "t", "i", "o", "n">>
K_pain        == <<"p", "a", "i", "n">>
K_fever       == <<"f", "e", "v", "e", "r">>
K_emergency   == <<"e", "m", "e", "r", "g", "e", "n", "c", "y">>

R_symptom == <<"I understand you're experiencing symptoms. Could you please describe them in more detail? This will help me provide better guidance. Remember, for accurate diagnosis, consulting a healthcare professional is essential.">>
R_appointment == <<"I can help you with scheduling an appointment. What type of specialist would you like to see, and what's your preferred time? I'll guide you through the booking process.">>
R_medication == <<"Medication adherence is crucial for effective treatment. Are you having any specific concerns about your medication? Remember to always consult your doctor before making any changes to your prescription.">>
R_pain == <<"I'm sorry to hear you're in pain. Could you tell me more about where it hurts and how long you've been experiencing this? This information is important for proper medical guidance.">>
R_fever == <<"I understand you have a fever. Is it accompanied by any other symptoms? Make sure to rest, stay hydrated, and monitor your temperature. If it's high or persistent, please seek medical attention.">>
R_emergency == <<"This sounds like a medical emergency. Please call emergency services (911) immediately. While waiting for help, try to stay calm and follow any first aid procedures you're aware of.">>

\* the dictionary in its insertion order, which is its iteration order
HEALTHCARE_RESPONSES ==
    << <<K_symptom, R_symptom>>,
       <<K_appointment, R_appointment>>,
       <<K_medication, R_medication>>,
       <<K_pain, R_pain>>,
       <<K_fever, R_fever>>,
       <<K_emergency, R_emergency>> >>

emergency_keywords ==
    << <<"h", "e", "a", "r", "t", " ", "a", "t", "t", "a", "c", "k">>,
       <<"s", "t", "r", "o", "k", "e">>,
       <<"s", "e", "v", "e", "r", "e", " ", "b", "l", "e", "e", "d", "i", "n", "g">>,
       <<"u", "n", "c", "o", "n", "s", "c", "i", "o", "u", "s">>,
       <<"s", "u", "i", "c", "i", "d", "e">>,
       <<"o", "v", "e", "r", "d", "o", "s", "e">> >>

healthcare_context ==
    <<"\n\nPlease note that I'm a healthcare assistant. For specific medical advice, always consult a healthcare professional.">>

TRY_LATER == <<"I apologize, but I'm having trouble. Please try again later.">>
REPHRASE  == <<"I apologize, but I'm having trouble understanding. Could you please rephrase your question?">>

-----------------------------------------------------------------------------
(* The environment: what the external library calls can do.                *)

\* the text of an exception raised while loading the model or the NLTK data
LoadExceptions == {"OSError: Can't load tokenizer for 'facebook/blenderbot-400M-distill'"}
\* the text of an exception raised by tokenizer(...), model.generate(...) or
\* tokenizer.batch_decode(...)
GenExceptions == {"RuntimeError: CUDA out of memory"}
ExceptionTexts == LoadExceptions \cup GenExceptions

\* texts the model can decode to
ModelReplies == { <<"Hello! How are you doing today?">>, <<>> }

\* the outcomes of one tokenize/generate/decode attempt
ExtOutcomes ==
    [kind : {"ok"}, text : ModelReplies, exc : {""}]
        \cup [kind : {"raise"}, text : {<<>>}, exc : GenExceptions]

\* the outcome of a function call: a returned text or a raised exception
Return(t) == [raised |-> FALSE, value |-> t]
Raise(e)  == [raised |-> TRUE, value |-> <<e>>]


-----------------------------------------------------------------------------
(* get_contextual_response and healthcare_chatbot.                         *)

\* what one call of get_contextual_response did: `ret` its outcome, `arg` the
\* text it was given, `attempts` the tokenize/generate/decode attempts it
\* made, `ext` how the last attempt ended ("none" when there was none)
Generated(ret, arg, attempts, ext) ==
    [ret |-> ret, arg |-> arg, attempts |-> attempts, ext |-> ext]

\* without the `is None` guard: calling None raises, the except clause answers
get_contextual_response_unguarded(u, tok, mdl, o) ==
    IF tok = "None" \/ mdl = "None"
    THEN Generated(Return(REPHRASE), u, 1, "raise")
    ELSE IF o.kind = "ok"
         THEN Generated(Return(o.text), u, 1, "ok")
         ELSE Generated(Return(REPHRASE), u, 1, "raise")

\* without the try/except: the exception of the external call propagates
get_contextual_response_uncaught(u, tok, mdl, o) ==
    IF tok = "None" \/ mdl = "None"
    THEN Generated(Return(TRY_LATER), u, 0, "none")
    ELSE IF o.kind = "ok"
         THEN Generated(Return(o.text), u, 1, "ok")
         ELSE Generated(Raise(o.exc), u, 1, "raise")

\* the except clause answering with the exception's text: return f"... {e}"
get_contextual_response_leaky(u, tok, mdl, o) ==
    IF tok = "None" \/ mdl = "None"
    THEN Generated(Return(TRY_LATER), u, 0, "none")
    ELSE IF o.kind = "ok"
         THEN Generated(Return(o.text), u, 1, "ok")
         ELSE Generated(Return(<<"I apologize, but I'm having trouble: ", o.exc>>), u, 1, "raise")

\* get_contextual_response(user_input), the external attempt ending as o
get_contextual_response(u, tok, mdl, o) ==
    IF tok = "None" \/ mdl = "None"
    THEN Generated(Return(TRY_LATER), u, 0, "none")
    ELSE IF o.kind = "ok"
         THEN Generated(Return(o.text), u, 1, "ok")
         ELSE Generated(Return(REPHRASE), u, 1, "raise")

\* any(keyword in user_input_lower for keyword in emergency_keywords)
AnyEmergency(low) ==
    \E i \in 1..Len(emergency_keywords) : Contains(low, emergency_keywords[i])

RECURSIVE ScanTable_last(_, _)
\* the loop keeping the last match instead of returning at the first
ScanTable_last(low, i) ==
    IF i > Len(HEALTHCARE_RESPONSES) THEN 0
    ELSE LET rest == ScanTable_last(low, i + 1)
         IN  IF rest > 0 THEN rest
             ELSE IF Contains(low, HEALTHCARE_RESPONSES[i][1]) THEN i ELSE 0

RECURSIVE ScanTable(_, _)
\* for keyword, response in HEALTHCARE_RESPONSES.items(): the index of the
\* first entry, from entry i on, whose keyword is in low; 0 when there is none
ScanTable(low, i) ==
    IF i > Len(HEALTHCARE_RESPONSES) THEN 0
    ELSE IF Contains(low, HEALTHCARE_RESPONSES[i][1]) THEN i
    ELSE ScanTable(low, i + 1)

\* what one call of healthcare_chatbot did: `path` the return statement it
\* left by, `entry` the table entry the scan matched (0: none), `ret` its
\* outcome, and the call of get_contextual_response it made, if any
Routed(path, entry, ret, g_called, g) ==
    [path |-> path, entry |-> entry, ret |-> ret, adapter_called |-> g_called,
     adapter_arg |-> g.arg, adapter_ret |-> g.ret, attempts |-> g.attempts,
     ext |-> g.ext]

\* no call of get_contextual_response
NotGenerated == Generated(Return(<<>>), <<>>, 0, "none")

NoCall == Routed("none", 0, Return(<<>>), FALSE, NotGenerated)

\* return HEALTHCARE_RESPONSES["emergency"]
EmergencyReturn ==
    Routed("emergency_check", 0, Return(R_emergency), FALSE, NotGenerated)

\* the response of the entry after the matched one
TableReturn_next(i) ==
    Routed("table_scan", i,
           Return(HEALTHCARE_RESPONSES[IF i < Len(HEALTHCARE_RESPONSES) THEN i + 1 ELSE 1][2]),
           FALSE, NotGenerated)

\* return response, inside the loop over the table
TableReturn(i) ==
    Routed("table_scan", i, Return(HEALTHCARE_RESPONSES[i][2]), FALSE, NotGenerated)

\* get_contextual_response(user_input_lower) instead of (user_input)
FallbackReturn_lowered(u, tok, mdl, o) ==
    LET g == get_contextual_response(lower(u), tok, mdl, o)
    IN  Routed("fallback", 0,
               IF g.ret.raised THEN g.ret
               ELSE Return(g.ret.value \o healthcare_context),
               TRUE, g)

\* response = get_contextual_response(user_input);
\* return response + healthcare_context
FallbackReturn(u, tok, mdl, o) ==
    LET g == get_contextual_response(u, tok, mdl, o)
    IN  Routed("fallback", 0,
               IF g.ret.raised THEN g.ret
               ELSE Return(g.ret.value \o healthcare_context),
               TRUE, g)

\* the table scanned before the emergency keywords are checked
healthcare_chatbot_table_first(u, tok, mdl, o) ==
    LET user_input_lower == lower(u)
        i == ScanTable(user_input_lower, 1)
    IN  IF i > 0 THEN TableReturn(i)
        ELSE IF AnyEmergency(user_input_lower) THEN EmergencyReturn
        ELSE FallbackReturn(u, tok, mdl, o)

\* healthcare_chatbot(user_input), with the module-level tokenizer and model
\* as they are and the external attempt, if one is made, ending as o
healthcare_chatbot(u, tok, mdl, o) ==
    LET user_input_lower == lower(u)
    IN  IF AnyEmergency(user_input_lower) THEN EmergencyReturn
        ELSE LET i == ScanTable(user_input_lower, 1)
             IN  IF i > 0 THEN TableReturn(i)
                 ELSE FallbackReturn(u, tok, mdl, o)

-----------------------------------------------------------------------------
(* The inputs.                                                             *)

RECURSIVE Flatten(_)
\* the concatenation of a sequence of texts
Flatten(ss) == IF ss = <<>> THEN <<>> ELSE Head(ss) \o Flatten(Tail(ss))

\* the texts of at most n fragments of F
TextsOf(F, n) == { Flatten(fs) : fs \in UNION { [1..k -> F] : k \in 0..n } }

Fragments ==
    { <<"h", "e", "a", "r", "t", " ", "a", "t", "t", "a", "c", "k">>,
      <<"S", "t", "r", "o", "k", "e">>,
      <<"s", "e", "v", "e", "r", "e", " ", "b", "l", "e", "e", "d", "i", "n", "g">>,
      <<"U", "N", "C", "O", "N", "S", "C", "I", "O", "U", "S">>,
      <<"s", "u", "i", "c", "i", "d", "e">>,
      <<"O", "v", "e", "r", "d", "o", "s", "e">>,
      <<"s", "y", "m", "p", "t", "o", "m">>,
      <<"A", "p", "p", "o", "i", "n", "t", "m", "e", "n", "t">>,
      <<"m", "e", "d", "i", "c", "a", "t", "i", "o", "n">>,
      <<"p", "a", "i", "n">>,
      <<"F", "E", "V", "E", "R">>,
      <<"e", "m", "e", "r", "g", "e", "n", "c", "y">>,
      <<"H", "e", "l", "l", "o">>,
      <<" ">>,
      <<"\t">> }

\* the inputs handed directly to healthcare_chatbot
Inputs == TextsOf(Fragments, MaxFrags)

SendFragments ==
    { <<"H", "i">>, <<" ">>, <<"p", "a", "i", "n">>,
      <<"O", "v", "e", "r", "d", "o", "s", "e">> }

\* the inputs typed into the text box
SendInputs == TextsOf(SendFragments, MaxSendFrags)

-----------------------------------------------------------------------------
(* The script.                                                             *)

\* st.session_state without a key
EmptySessionState == [k \in {} |-> <<>>]

HasHistory == "chat_history" \in DOMAIN session_state
chat_history == session_state["chat_history"]

\* the session starts the script with the text box empty
Init ==
    /\ pc = "load_model"
    /\ tokenizer = "unset"
    /\ model = "unset"
    /\ st_errors = <<>>
    /\ session_state = EmptySessionState
    /\ user_input = <<>>
    /\ call = NoCall
    /\ event = "none"

\* a caller about to import the module and call healthcare_chatbot(user_input)
InitRoute ==
    /\ pc = "load_model"
    /\ tokenizer = "unset"
    /\ model = "unset"
    /\ st_errors = <<>>
    /\ session_state = EmptySessionState
    /\ user_input \in Inputs
    /\ call = NoCall
    /\ event = "none"

\* tokenizer, model = load_model(): both loaded, or an exception of either
\* from_pretrained shown by st.error and (None, None) returned
load_model ==
    /\ pc = "load_model"
    /\ \/ /\ tokenizer' = "loaded"
          /\ model' = "loaded"
          /\ UNCHANGED st_errors
       \/ \E e \in LoadExceptions :
             /\ tokenizer' = "None"
             /\ model' = "None"
             /\ st_errors' = Append(st_errors, <<"Error loading model: ", e>>)
    /\ pc' = "load_nltk_data"
    /\ UNCHANGED <<session_state, user_input, call, event>>

\* load_nltk_data(): an exception of nltk.download is shown by st.error
load_nltk_data ==
    /\ pc = "load_nltk_data"
    /\ \/ UNCHANGED st_errors
       \/ \E e \in LoadExceptions :
             st_errors' = Append(st_errors, <<"Error downloading NLTK data: ", e>>)
    /\ pc' = "main"
    /\ UNCHANGED <<tokenizer, model, session_state, user_input, call, event>>

\* a direct call healthcare_chatbot(user_input) once the module is loaded
Route ==
    /\ pc = "main"
    /\ \E o \in ExtOutcomes :
          call' = healthcare_chatbot(user_input, tokenizer, model, o)
    /\ pc' = "returned"
    /\ UNCHANGED <<tokenizer, model, st_errors, session_state, user_input, event>>

\* the first run of main(): the transcript is created when the session has
\* none, and the page is rendered
main ==
    /\ pc = "main"
    /\ session_state' =
          IF HasHistory THEN session_state ELSE [chat_history |-> <<>>]
    /\ pc' = "idle"
    /\ UNCHANGED <<tokenizer, model, st_errors, user_input, call, event>>

\* Send appending the reply before the user's message
Send_swapped ==
    /\ pc = "idle"
    /\ Len(chat_history) < 2 * MaxTurns
    /\ \E u \in SendInputs, o \in ExtOutcomes :
          /\ u # <<>>
          /\ LET r == healthcare_chatbot(u, tokenizer, model, o)
             IN  /\ call' = r
                 /\ user_input' = u
                 /\ IF r.ret.raised
                    THEN /\ st_errors' = Append(st_errors, <<"Traceback: ">> \o r.ret.value)
                         /\ UNCHANGED session_state
                    ELSE /\ session_state' =
                               [session_state EXCEPT !["chat_history"] =
                                   Append(Append(@, <<"Assistant", r.ret.value>>),
                                          <<"User", u>>)]
                         /\ UNCHANGED st_errors
    /\ event' = "Send"
    /\ UNCHANGED <<pc, tokenizer, model>>

\* the Send button with a non-empty text box: the reply is computed, the two
\* messages are appended and the script reruns (the cached loads return what
\* they returned, main() renders the transcript).  An exception leaving
\* healthcare_chatbot would end the run in the framework's error box.
Send ==
    /\ pc = "idle"
    /\ Len(chat_history) < 2 * MaxTurns
    /\ \E u \in SendInputs, o \in ExtOutcomes :
          /\ u # <<>>
          /\ LET r == healthcare_chatbot(u, tokenizer, model, o)
             IN  /\ call' = r
                 /\ user_input' = u
                 /\ IF r.ret.raised
                    THEN /\ st_errors' = Append(st_errors, <<"Traceback: ">> \o r.ret.value)
                         /\ UNCHANGED session_state
                    ELSE /\ session_state' =
                               [session_state EXCEPT !["chat_history"] =
                                   Append(Append(@, <<"User", u>>),
                                          <<"Assistant", r.ret.value>>)]
                         /\ UNCHANGED st_errors
    /\ event' = "Send"
    /\ UNCHANGED <<pc, tokenizer, model>>

\* Clear dropping only the last exchange
Clear_last ==
    /\ pc = "idle"
    /\ session_state' =
          [session_state EXCEPT !["chat_history"] =
              IF Len(@) >= 2 THEN SubSeq(@, 1, Len(@) - 2) ELSE @]
    /\ event' = "Clear"
    /\ UNCHANGED <<pc, tokenizer, model, st_errors, user_input, call>>

\* the Clear button: the transcript is replaced by an empty one and the
\* script reruns
Clear ==
    /\ pc = "idle"
    /\ session_state' = [session_state EXCEPT !["chat_history"] = <<>>]
    /\ event' = "Clear"
    /\ UNCHANGED <<pc, tokenizer, model, st_errors, user_input, call>>

\* the chat page in a browser session
Next == load_model \/ load_nltk_data \/ main \/ Send \/ Clear

Spec == Init /\ [][Next]_vars

\* healthcare_chatbot called as a function
NextRoute == load_model \/ load_nltk_data \/ Route

SpecRoute == InitRoute /\ [][NextRoute]_vars

\* the texts the page shows: the error boxes and the rendered transcript
Shown ==
    { st_errors[i] : i \in 1..Len(st_errors) }
        \cup (IF HasHistory
              THEN { chat_history[i][2] : i \in 1..Len(chat_history) }
              ELSE {})

\* a text carries the text of an exception
CarriesException(t) == \E i \in 1..Len(t) : t[i] \in ExceptionTexts

-----------------------------------------------------------------------------
(* The properties.  The first group is about healthcare_chatbot as a       *)
(* function and is checked under SpecRoute; the second is about the chat   *)
(* page and is checked under Spec.                                         *)

\* the keywords of the response table in the order the table defines them
TableOrder == <<K_symptom, K_appointment, K_medication, K_pain, K_fever, K_emergency>>

\* the canned response the table pairs with keyword k
ResponseOf(k) ==
    HEALTHCARE_RESPONSES[CHOOSE i \in 1..Len(HEALTHCARE_RESPONSES) :
                            HEALTHCARE_RESPONSES[i][1] = k][2]

\* the lowercased form of u contains an emergency phrase
EmergencyPhraseIn(u) ==
    LET low == lower(u)
    IN  \E i \in 1..Len(emergency_keywords) :
            \E j \in 0..(Len(low) - Len(emergency_keywords[i])) :
                SubSeq(low, j + 1, j + Len(emergency_keywords[i])) = emergency_keywords[i]

\* the lowercased form of u contains the n-th keyword of the table
KeywordIn(n, u) ==
    LET low == lower(u)
    IN  \E j \in 0..(Len(low) - Len(TableOrder[n])) :
            SubSeq(low, j + 1, j + Len(TableOrder[n])) = TableOrder[n]

AnyKeywordIn(u) == \E n \in 1..Len(TableOrder) : KeywordIn(n, u)

\* u is empty or consists of blanks and tabs only
IsBlank(u) == \A i \in 1..Len(u) : u[i] \in {" ", "\t"}

\* C1: an input whose lowercased form contains an emergency phrase gets
\* exactly the emergency response, whatever topic keywords it also
\* contains and whatever the state of the model
C1_EmergencyOverride ==
    (pc = "returned" /\ EmergencyPhraseIn(user_input))
        => call.ret = Return(R_emergency)

\* an emergency phrase in capitals beside a topic keyword, the model unavailable
C1_Witness ==
    /\ pc = "returned"
    /\ EmergencyPhraseIn(user_input)
    /\ user_input # lower(user_input)
    /\ \E n \in 1..5 : KeywordIn(n, user_input)
    /\ tokenizer = "None"
    /\ call.ret = Return(R_emergency)

\* C2: an input with a table keyword and no emergency phrase gets exactly
\* the canned response of the keyword, among those it contains, that the
\* table defines first, wherever the keywords stand in the input
C2_FirstKeywordInTableOrder ==
    (pc = "returned" /\ ~ EmergencyPhraseIn(user_input) /\ AnyKeywordIn(user_input))
        => \E n \in 1..Len(TableOrder) :
              /\ KeywordIn(n, user_input)
              /\ \A m \in 1..(n - 1) : ~ KeywordIn(m, user_input)
              /\ call.ret = Return(ResponseOf(TableOrder[n]))

\* "FEVERpain": fever stands first in the input, pain first in the table
C2_Witness ==
    /\ pc = "returned"
    /\ user_input = <<"F", "E", "V", "E", "R", "p", "a", "i", "n">>
    /\ call.ret = Return(R_pain)

\* C3: an input with no emergency phrase and no table keyword is handed, as
\* typed, to get_contextual_response, and the result is that call's result
\* followed by the disclaimer, also when that result is an apology
C3_FallbackWithDisclaimer ==
    (pc = "returned" /\ ~ EmergencyPhraseIn(user_input) /\ ~ AnyKeywordIn(user_input))
        => /\ call.path = "fallback"
           /\ call.adapter_called
           /\ call.adapter_arg = user_input
           /\ ~ call.adapter_ret.raised
           /\ call.ret = Return(call.adapter_ret.value \o healthcare_context)
           /\ healthcare_context # <<>>

\* an input with a capital letter whose generation failed
C3_Witness ==
    /\ pc = "returned"
    /\ user_input = <<"H", "e", "l", "l", "o">>
    /\ call.adapter_arg = user_input
    /\ call.adapter_ret = Return(REPHRASE)
    /\ call.ret = Return(REPHRASE \o healthcare_context)

\* C4 as claimed: the emergency response is returned only by the priority
\* check on the emergency phrases, never by the scan of the table
C4_EmergencyOnlyByPriorityCheck ==
    (pc = "returned" /\ call.ret = Return(R_emergency))
        => (call.path = "emergency_check" /\ EmergencyPhraseIn(user_input))

\* C4 as amended: the emergency response is returned exactly for the inputs
\* that contain an emergency phrase or that contain the table's own keyword
\* "emergency" and no keyword the table defines before it; the table scan
\* returns it in the second case
C4_EmergencyByCheckOrTableEntry ==
    pc = "returned"
        => /\ call.ret = Return(R_emergency)
                <=> \/ EmergencyPhraseIn(user_input)
                    \/ /\ KeywordIn(6, user_input)
                       /\ \A m \in 1..5 : ~ KeywordIn(m, user_input)
           /\ (call.ret = Return(R_emergency) /\ ~ EmergencyPhraseIn(user_input))
                => (call.path = "table_scan" /\ call.entry = 6)
           /\ (call.ret = Return(R_emergency) /\ EmergencyPhraseIn(user_input))
                => call.path = "emergency_check"

\* the input "emergency": no emergency phrase, answered by the table scan
C4_Witness ==
    /\ pc = "returned"
    /\ user_input = K_emergency
    /\ call.path = "table_scan"
    /\ call.ret = Return(R_emergency)

\* C6: a failing external call is attempted once and answered by the
\* rephrase apology, and neither get_contextual_response nor
\* healthcare_chatbot ever lets an exception out
C6_GenerationFailureAbsorbed ==
    pc = "returned"
        => /\ ~ call.ret.raised
           /\ ~ call.adapter_ret.raised
           /\ call.attempts <= 1
           /\ call.ext = "raise"
                => /\ call.attempts = 1
                   /\ call.adapter_ret = Return(REPHRASE)
                   /\ call.ret = Return(REPHRASE \o healthcare_context)

\* the model is loaded and the external call of the request raised
C6_Witness ==
    /\ pc = "returned"
    /\ tokenizer = "loaded" /\ model = "loaded"
    /\ call.adapter_called
    /\ call.ext = "raise"
    /\ call.attempts = 1

\* C8: an empty or blank input matches nothing and is answered by the
\* fallback: the adapter's text and the disclaimer, never a canned response
C8_BlankInputFallsThrough ==
    (pc = "returned" /\ IsBlank(user_input))
        => /\ call.path = "fallback"
           /\ call.adapter_called
           /\ call.ret = Return(call.adapter_ret.value \o healthcare_context)
           /\ \A n \in 1..Len(TableOrder) : call.ret # Return(ResponseOf(TableOrder[n]))

\* the empty input
C8_Witness ==
    /\ pc = "returned"
    /\ user_input = <<>>
    /\ call.path = "fallback"

\* load_model returned no tokenizer or no model
Unavailable == tokenizer = "None" \/ model = "None"

\* C5: once the model failed to load it stays unavailable, and every call of
\* get_contextual_response from then on returns the try-again-later apology
\* without an attempt on the external model; that apology is not the
\* rephrase apology
C5_InitFailureAnswers ==
    [][ Unavailable
          => /\ Unavailable'
             /\ call'.adapter_called
                  => /\ call'.adapter_ret = Return(TRY_LATER)
                     /\ call'.attempts = 0
                     /\ call'.ext = "none"
             /\ TRY_LATER # REPHRASE ]_vars

\* the second request of a session whose model failed to load
C5_Witness ==
    /\ Unavailable
    /\ HasHistory
    /\ Len(chat_history) = 4
    /\ event = "Send"
    /\ call.adapter_called
    /\ call.adapter_ret = Return(TRY_LATER)

\* C7 as claimed: nothing the page shows carries the text of an exception
C7_NoExceptionTextShown ==
    \A t \in Shown : ~ CarriesException(t)

\* C7 as amended: no message of the transcript carries the text of an
\* exception, and the only error boxes are the ones load_model and
\* load_nltk_data show when loading fails
C7_RepliesCarryNoException ==
    /\ HasHistory
         => \A i \in 1..Len(chat_history) : ~ CarriesException(chat_history[i][2])
    /\ \A i \in 1..Len(st_errors) :
          st_errors[i][1] \in {"Error loading model: ", "Error downloading NLTK data: "}
    /\ Len(st_errors) <= 2

\* a reply to a request whose generation failed, in a session whose NLTK
\* download failed
C7_Witness ==
    /\ HasHistory
    /\ event = "Send"
    /\ call.ext = "raise"
    /\ chat_history[Len(chat_history)] = <<"Assistant", REPHRASE \o healthcare_context>>
    /\ st_errors # <<>>

RepliesTo(u) ==
    { healthcare_chatbot(u, tokenizer, model, o).ret.value : o \in ExtOutcomes }

\* C10: the transcript is a sequence of (User, u), (Assistant, a) pairs, u a
\* non-empty input and a a reply of healthcare_chatbot to u; after a Send
\* its last pair is the input and the reply of that call
C10_TranscriptPairs ==
    HasHistory
        => /\ Len(chat_history) % 2 = 0
           /\ \A k \in 1..(Len(chat_history) \div 2) :
                 /\ chat_history[2 * k - 1][1] = "User"
                 /\ chat_history[2 * k - 1][2] # <<>>
                 /\ chat_history[2 * k][1] = "Assistant"
                 /\ chat_history[2 * k][2] \in RepliesTo(chat_history[2 * k - 1][2])
           /\ event = "Send"
                => /\ Len(chat_history) >= 2
                   /\ chat_history[Len(chat_history) - 1] = <<"User", user_input>>
                   /\ chat_history[Len(chat_history)] = <<"Assistant", call.ret.value>>

\* two exchanges in the transcript
C10_Witness ==
    /\ HasHistory
    /\ Len(chat_history) >= 4
    /\ event = "Send"

=============================================================================
